---- MODULE Spec2Model ----
(***************************************************************************)
(* Battery cell monitoring dashboard (src/battery_dashboard.py).           *)
(*                                                                         *)
(* The dashboard is a Streamlit script: every user interaction and every   *)
(* st.rerun() executes the script once from top to bottom.  One action of  *)
(* this module is one such script run, for one triggering event.           *)
(*                                                                         *)
(* Fixed-point units (the code rounds every value to a fixed number of     *)
(* decimals): voltage mV, current cA (0.01 A), temperature d°C (0.1 °C),    *)
(* power cW, capacity cAh, health 0.1 %.  Random draws are taken in finer  *)
(* units so that round() does real work: voltage variation in 0.1 mV,      *)
(* current in mA, temperature variation in m°C, capacity in mAh.           *)
(*                                                                         *)
(* Python objects are modelled with identity: session_state.cells_data is  *)
(* a reference to a dict object, a dict maps keys to references of reading *)
(* objects, dict.copy() allocates a new dict holding the same references.  *)
(* An address is <<t, k>>: t the datetime.now() value read just before the *)
(* allocation, k = 0 for a dict and k = slot number for a reading.         *)
(***************************************************************************)
EXTENDS Integers, Sequences, FiniteSets, TLC

VARIABLES
    num_cells,        \* slider "Number of Cells"
    cell_types,       \* selectboxes "Cell i Type", one per visible slot
    auto_refresh,     \* checkbox "Auto Refresh (5s)"
    is_monitoring,    \* st.session_state.is_monitoring
    cells_data,       \* st.session_state.cells_data: address of the store dict
    historical_data,  \* st.session_state.historical_data: list of snapshots
    dicts,            \* heap: address -> dict object (sequence of key/ref entries)
    cells,            \* heap: address -> reading object
    clock,            \* next value datetime.now() returns
    view,             \* what the main content area last rendered
    aggregates,       \* summary metrics last computed
    error,            \* uncaught exception of the last script run
    trigger,          \* what started the last script run: "interaction" or "rerun"
    appended,         \* history variable: every snapshot ever appended, in order
    probe             \* result of the last direct simulator call (simulator specs)

vars == <<num_cells, cell_types, auto_refresh, is_monitoring, cells_data,
          historical_data, dicts, cells, clock, view, aggregates, error,
          trigger, appended, probe>>

-----------------------------------------------------------------------------
(* Program constants *)

CELL_CONFIGS ==
    [t \in {"LFP", "NMC", "LTO", "LiCoO2"} |->
        CASE t = "LFP"    -> [nominal_voltage |-> 3200, min_voltage |-> 2800,
                              max_voltage |-> 3600, color |-> "#2ecc71"]
          [] t = "NMC"    -> [nominal_voltage |-> 3600, min_voltage |-> 3200,
                              max_voltage |-> 4000, color |-> "#e74c3c"]
          [] t = "LTO"    -> [nominal_voltage |-> 2400, min_voltage |-> 1500,
                              max_voltage |-> 2800, color |-> "#f39c12"]
          [] t = "LiCoO2" -> [nominal_voltage |-> 3700, min_voltage |-> 3000,
                              max_voltage |-> 4200, color |-> "#9b59b6"]]

\* list(CELL_CONFIGS.keys()): the options of every chemistry selectbox
CellTypeOptions == <<"LFP", "NMC", "LTO", "LiCoO2">>

MIN_CELLS == 1
MAX_CELLS == 16
DEFAULT_CELLS == 8
HISTORY_CAP == 100
BASE_TEMP == 250
CRITICAL_TEMP == 450
WARNING_TEMP == 400
WARNING_HEALTH == 800

-----------------------------------------------------------------------------
(* Bounds of the model *)

MaxCells == 2          \* slider positions explored: MIN_CELLS..MaxCells and the default
EditSlot == 1          \* the selectbox whose chemistry the user changes
MaxClock == 3          \* datetime.now() calls explored in Spec
HistAppends == 150     \* snapshots appended in SpecHist
GridStep == 7          \* the draw grids of SpecSim cut every range into GridStep + 1 steps

-----------------------------------------------------------------------------
(* Arithmetic helpers *)

Abs(x) == IF x < 0 THEN -x ELSE x
Max(a, b) == IF a >= b THEN a ELSE b

\* Python round(): n/d to the nearest integer, ties to the even one (d > 0)
Round(n, d) ==
    LET q == n \div d
        r == n % d
    IN  IF 2 * r < d THEN q
        ELSE IF 2 * r > d THEN q + 1
        ELSE IF q % 2 = 0 THEN q ELSE q + 1

RECURSIVE IntStr(_)
\* str(n) of a non-negative integer, as in an f-string
IntStr(n) ==
    LET digit == <<"0", "1", "2", "3", "4", "5", "6", "7", "8", "9">>
    IN  IF n < 10 THEN digit[n + 1]
        ELSE IntStr(n \div 10) \o digit[(n % 10) + 1]

\* f"Cell_{i+1}_{cell_type}" for the 0-based loop index i
CellId(i, cell_type) == "Cell_" \o IntStr(i + 1) \o "_" \o cell_type

-----------------------------------------------------------------------------
(* Cell simulator: generate_cell_data *)

\* voltage = round(base_voltage + voltage_variation, 3); variation in 0.1 mV
Voltage(config, dv) == Round(10 * config.nominal_voltage + dv, 10)

\* current = round(uniform(-5.0, 5.0), 2); draw in mA
Current(cur) == Round(cur, 10)

\* variant: abs(current) * 5 instead of abs(current) * 0.5
TemperatureSteep(current, dt) == Round(100 * BASE_TEMP + 50 * Abs(current) + dt, 100)

\* temperature = round(base_temp + abs(current) * 0.5 + uniform(-2, 8), 1)
Temperature(current, dt) == Round(100 * BASE_TEMP + 5 * Abs(current) + dt, 100)

\* power = round(voltage * abs(current), 2)
Power(voltage, current) == Round(voltage * Abs(current), 1000)

\* capacity = round(uniform(2.8, 3.2), 2); draw in mAh
Capacity(cap) == Round(cap, 10)

\* voltage_health * nominal_voltage (percent): 100 * (1 - |v - nominal| / nominal)
VoltageHealth(config, voltage) ==
    100 * (config.nominal_voltage - Abs(voltage - config.nominal_voltage))

\* temp_health * 2 (percent): 100 * max(0, 1 - max(0, temperature - 35) / 20)
TempHealth(temperature) == Max(0, 200 - Max(0, temperature - 350))

\* overall_health = round((voltage_health + temp_health) / 2, 1)
OverallHealth(config, voltage, temperature) ==
    Round(10 * VoltageHealth(config, voltage)
            + 5 * config.nominal_voltage * TempHealth(temperature),
          2 * config.nominal_voltage)

\* variant: the Warning test placed before the Critical test
StatusWarningFirst(config, voltage, temperature, overall_health) ==
    IF temperature > WARNING_TEMP \/ overall_health < WARNING_HEALTH
    THEN "Warning"
    ELSE IF \/ voltage < config.min_voltage
            \/ voltage > config.max_voltage
            \/ temperature > CRITICAL_TEMP
    THEN "Critical"
    ELSE "Good"

\* status determination, lines 113-118
Status(config, voltage, temperature, overall_health) ==
    IF \/ voltage < config.min_voltage
       \/ voltage > config.max_voltage
       \/ temperature > CRITICAL_TEMP
    THEN "Critical"
    ELSE IF temperature > WARNING_TEMP \/ overall_health < WARNING_HEALTH
    THEN "Warning"
    ELSE "Good"

\* CELL_CONFIGS[cell_type] raises KeyError for any other cell_type
KnownType(cell_type) == cell_type \in DOMAIN CELL_CONFIGS

\* generate_cell_data(cell_type, cell_id, current_time) for one set of draws
generate_cell_data(cell_type, cell_id, current_time, draw) ==
    LET config      == CELL_CONFIGS[cell_type]
        voltage     == Voltage(config, draw.dv)
        current     == Current(draw.cur)
        temperature == Temperature(current, draw.dt)
        health      == OverallHealth(config, voltage, temperature)
    IN  [cell_id     |-> cell_id,
         cell_type   |-> cell_type,
         voltage     |-> voltage,
         current     |-> current,
         temperature |-> temperature,
         power       |-> Power(voltage, current),
         capacity    |-> Capacity(draw.cap),
         health      |-> health,
         status      |-> Status(config, voltage, temperature, health),
         timestamp   |-> current_time,
         min_voltage |-> config.min_voltage,
         max_voltage |-> config.max_voltage]

\* get_status_color
get_status_color(status) ==
    IF status = "Good" THEN "status-good"
    ELSE IF status = "Warning" THEN "status-warning"
    ELSE "status-critical"

-----------------------------------------------------------------------------
(* Python objects: ordered dicts of references, and the heap *)

EmptyDict == <<>>

\* list(d.keys())
DictKeys(d) == [k \in 1..Len(d) |-> d[k].key]

\* d[key] = ref: rebinds an existing key in place, else inserts at the end
DictSet(d, key, ref) ==
    IF \E k \in 1..Len(d) : d[k].key = key
    THEN [k \in 1..Len(d) |-> IF d[k].key = key THEN [d[k] EXCEPT !.ref = ref] ELSE d[k]]
    ELSE Append(d, [key |-> key, ref |-> ref])

RECURSIVE AssignAll(_, _, _, _)
\* the first m iterations of "for k: d[keys[k]] = <reading allocated at <<t, k>>>"
AssignAll(d, keys, t, m) ==
    IF m = 0 THEN d
    ELSE DictSet(AssignAll(d, keys, t, m - 1), keys[m], <<t, m>>)

\* the reading objects those m iterations allocate
NewReadings(keys, types, t, m, draw) ==
    [a \in {<<t, k>> : k \in 1..m} |->
        generate_cell_data(types[a[2]], keys[a[2]], t, draw[a[2]])]

\* number of loop iterations that complete before generate_cell_data raises
Completed(types) ==
    LET bad == {k \in 1..Len(types) : ~KnownType(types[k])}
    IN  IF bad = {} THEN Len(types)
        ELSE (CHOOSE k \in bad : \A j \in bad : k <= j) - 1

\* reference counting: objects no longer reachable from session_state are freed
LiveDicts(cd, hist) == {cd} \cup {hist[i].data : i \in 1..Len(hist)}
LiveCells(ds, live) == UNION {{ds[a][k].ref : k \in 1..Len(ds[a])} : a \in live}
Restrict(f, S) == [a \in (DOMAIN f) \cap S |-> f[a]]

\* the readings of a dict object, in key order: d.values()
Values(ds, cs, a) == [k \in 1..Len(ds[a]) |-> cs[ds[a][k].ref]]

-----------------------------------------------------------------------------
(* Sidebar, lines 148-200 *)

\* the selectboxes rendered for a slider value n: a slot that was not rendered
\* before starts at the first option, a slot no longer rendered loses its state
Selectboxes(n, old) ==
    [i \in 1..n |-> IF i <= Len(old) THEN old[i] ELSE CellTypeOptions[1]]

\* variant: without "st.session_state.cells_data = {}", the store is refilled in place
InitializeCellsKeepingStore(s, types, draw) ==
    LET t    == s.clock
        keys == [i \in 1..Len(types) |-> CellId(i - 1, types[i])]
        m    == Completed(types)
    IN  [s EXCEPT !.dicts = [s.dicts EXCEPT ![s.cd] = AssignAll(s.dicts[s.cd], keys, t, m)],
                  !.cells = NewReadings(keys, types, t, m, draw) @@ s.cells,
                  !.clock = t + 1,
                  !.error = IF m < Len(types) THEN "KeyError" ELSE s.error]

\* "Initialize Cells" handler, lines 175-181, on session state s
InitializeCells(s, types, draw) ==
    LET t    == s.clock
        keys == [i \in 1..Len(types) |-> CellId(i - 1, types[i])]
        m    == Completed(types)
    IN  [s EXCEPT !.cd    = <<t, 0>>,
                  !.dicts = (<<t, 0>> :> AssignAll(EmptyDict, keys, t, m)) @@ s.dicts,
                  !.cells = NewReadings(keys, types, t, m, draw) @@ s.cells,
                  !.clock = t + 1,
                  !.error = IF m < Len(types) THEN "KeyError" ELSE s.error]

\* "Start Monitoring" / "Stop Monitoring" handlers, lines 186-193
StartMonitoring(s) == [s EXCEPT !.mon = TRUE]
StopMonitoring(s) == [s EXCEPT !.mon = FALSE]

\* lines 198-200: time.sleep(5); st.rerun() ends the run before the main content
AutoRerun(ar, s) == ar /\ s.mon

-----------------------------------------------------------------------------
(* Main content, lines 203-231 and 412-418 *)

\* variant: the snapshot keeps cells_data itself, without .copy()
SnapshotDataAliased(cd, t) == cd

\* the address historical_data keeps for a snapshot: cells_data.copy()
SnapshotData(cd, t) == <<t, 0>>

\* variant: historical_data[:100], the oldest records are kept
KeepFirst(hist) ==
    IF Len(hist) > HISTORY_CAP THEN SubSeq(hist, 1, HISTORY_CAP) ELSE hist

\* "Keep only last 100 records", lines 219-220
KeepLast(hist) ==
    IF Len(hist) > HISTORY_CAP
    THEN SubSeq(hist, Len(hist) - HISTORY_CAP + 1, Len(hist))
    ELSE hist

\* variant: the tick takes the chemistry of slot k from the sidebar selectbox
StoredTypeFromSidebar(s, k) ==
    IF k <= Len(cell_types) THEN cell_types[k]
    ELSE s.cells[s.dicts[s.cd][k].ref].cell_type

\* variant: the tick reads the "cell_id" field instead of "cell_type"
StoredTypeFromCellId(s, k) == s.cells[s.dicts[s.cd][k].ref].cell_id

\* the cell type a tick passes to the simulator for the k-th key, line 209
StoredType(s, k) == s.cells[s.dicts[s.cd][k].ref].cell_type

\* monitoring update block, lines 206-220
MonitoringUpdate(s, draw) ==
    LET t     == s.clock
        d     == s.dicts[s.cd]
        keys  == DictKeys(d)
        types == [k \in 1..Len(d) |-> StoredType(s, k)]
        m     == Completed(types)
        d2    == AssignAll(d, keys, t, m)
        snap  == [timestamp |-> t, data |-> SnapshotData(s.cd, t)]
    IN  IF m < Len(d)
        THEN [s EXCEPT !.dicts = [s.dicts EXCEPT ![s.cd] = d2],
                       !.cells = NewReadings(keys, types, t, m, draw) @@ s.cells,
                       !.clock = t + 1,
                       !.error = "KeyError"]
        ELSE [s EXCEPT !.dicts = [((<<t, 0>> :> d2) @@ s.dicts) EXCEPT ![s.cd] = d2],
                       !.cells = NewReadings(keys, types, t, m, draw) @@ s.cells,
                       !.clock = t + 1,
                       !.hist  = KeepLast(Append(s.hist, snap)),
                       !.log   = Append(s.log, snap)]

RECURSIVE SumField(_, _, _)
\* sum(cell[field] for cell in values[1..n])
SumField(values, field, n) ==
    IF n = 0 THEN 0 ELSE SumField(values, field, n - 1) + values[n][field]

\* summary metrics, lines 226-231
SummaryMetrics(values) ==
    LET n == Len(values)
        count(st) == Cardinality({k \in 1..n : values[k].status = st})
    IN  [total_cells    |-> n,
         good_cells     |-> count("Good"),
         warning_cells  |-> count("Warning"),
         critical_cells |-> count("Critical"),
         avg_health     |-> IF n = 0 THEN "nan"
                            ELSE IntStr(Round(SumField(values, "health", n), n)),
         total_power    |-> SumField(values, "power", n)]

\* variant: the main content is rendered without the guard on the store
HasCellsUnguarded(s) == TRUE

\* "if st.session_state.cells_data:", line 203
HasCells(s) == Len(s.dicts[s.cd]) > 0

\* variant: the update block runs whatever the monitoring flag
ShouldUpdateAlways(s) == TRUE

\* "if st.session_state.is_monitoring:", line 206
ShouldUpdate(s) == s.mon

-----------------------------------------------------------------------------
(* One script run *)

\* the session state a run starts from
Session ==
    [cd |-> cells_data, dicts |-> dicts, cells |-> cells, clock |-> clock,
     mon |-> is_monitoring, hist |-> historical_data, log |-> appended,
     error |-> "none"]

\* the state a run leaves behind; v and ag are the main area and the metrics
\* it rendered.  b.maxClock bounds the datetime.now() calls explored.
EndRun(s, v, ag, b) ==
    /\ s.clock <= b.maxClock + 1
    /\ clock' = s.clock
    /\ is_monitoring' = s.mon
    /\ error' = s.error
    /\ view' = v
    /\ cells_data' = s.cd
    /\ historical_data' = s.hist
    /\ appended' = s.log
    /\ aggregates' = ag
    /\ dicts' = Restrict(s.dicts, LiveDicts(s.cd, s.hist))
    /\ cells' = Restrict(s.cells, LiveCells(s.dicts, LiveDicts(s.cd, s.hist)))

\* main content area, lines 203-418, after the sidebar left session state s
MainContent(s, b) ==
    IF ~HasCells(s)
    THEN EndRun(s, "placeholder", aggregates, b)
    ELSE IF ShouldUpdate(s)
    THEN \E draw \in [1..Len(s.dicts[s.cd]) -> b.draws] :
            \E s2 \in {MonitoringUpdate(s, draw)} :
                IF s2.error # "none"
                THEN EndRun(s2, "exception", aggregates, b)
                ELSE EndRun(s2, "dashboard",
                            <<SummaryMetrics(Values(s2.dicts, s2.cells, s2.cd))>>, b)
    ELSE EndRun(s, "dashboard", <<SummaryMetrics(Values(s.dicts, s.cells, s.cd))>>, b)

\* the whole script for event ev with the widgets at (n, types, ar)
ScriptRun(ev, n, types, ar, b) ==
    /\ num_cells' = n
    /\ cell_types' = types
    /\ auto_refresh' = ar
    /\ trigger' = IF ev = "timer" THEN "rerun" ELSE "interaction"
    /\ UNCHANGED probe
    /\ \E draw \in [1..n -> b.draws] :
          \E s \in {CASE ev = "init"  -> InitializeCells(Session, types, draw)
                     [] ev = "start" -> StartMonitoring(Session)
                     [] ev = "stop"  -> StopMonitoring(Session)
                     [] OTHER        -> Session} :
              IF s.error # "none" THEN EndRun(s, "exception", aggregates, b)
              ELSE IF AutoRerun(ar, s) THEN EndRun(s, view, aggregates, b)
              ELSE MainContent(s, b)

-----------------------------------------------------------------------------
(* Events *)

\* slider positions explored: the lowest b.cells ones and the default
SliderPositions(b) == (MIN_CELLS..b.cells) \cup {DEFAULT_CELLS}

\* the user moves the "Number of Cells" slider, line 159
SetNumCells(b) ==
    \E n \in SliderPositions(b) \ {num_cells} :
        ScriptRun("slider", n, Selectboxes(n, cell_types), auto_refresh, b)

\* the user picks another chemistry in selectbox b.slot
SelectCellType(b) ==
    \E i \in 1..num_cells, k \in 1..Len(CellTypeOptions) :
        /\ i = b.slot
        /\ CellTypeOptions[k] # cell_types[i]
        /\ ScriptRun("select", num_cells,
                     [cell_types EXCEPT ![i] = CellTypeOptions[k]], auto_refresh, b)

ClickInitialize(b) == ScriptRun("init", num_cells, cell_types, auto_refresh, b)

ClickStart(b) == ScriptRun("start", num_cells, cell_types, auto_refresh, b)

ClickStop(b) == ScriptRun("stop", num_cells, cell_types, auto_refresh, b)

ToggleAutoRefresh(b) == ScriptRun("auto", num_cells, cell_types, ~auto_refresh, b)

\* the run the previous run asked for with st.rerun() after its 5 s sleep
TimerRerun(b) ==
    /\ AutoRerun(auto_refresh, Session)
    /\ ScriptRun("timer", num_cells, cell_types, auto_refresh, b)

-----------------------------------------------------------------------------
(* Specifications *)

\* the typical draw: every random term in the middle of its range
MidDraw == [dv |-> 0, cur |-> 1500, dt |-> 3000, cap |-> 3000]

MainBounds ==
    [cells |-> MaxCells, slot |-> EditSlot, draws |-> {MidDraw}, maxClock |-> MaxClock]

\* the state after the first run of the script (page load)
InitSession ==
    /\ num_cells = DEFAULT_CELLS
    /\ cell_types = Selectboxes(DEFAULT_CELLS, <<>>)
    /\ auto_refresh = TRUE
    /\ is_monitoring = FALSE
    /\ cells_data = <<0, 0>>
    /\ dicts = (<<0, 0>> :> EmptyDict)
    /\ cells = <<>>
    /\ historical_data = <<>>
    /\ clock = 1
    /\ view = "placeholder"
    /\ aggregates = <<>>
    /\ error = "none"
    /\ trigger = "interaction"
    /\ appended = <<>>

Init == InitSession /\ probe = <<>>

Next ==
    \/ SetNumCells(MainBounds)
    \/ SelectCellType(MainBounds)
    \/ ClickInitialize(MainBounds)
    \/ ClickStart(MainBounds)
    \/ ClickStop(MainBounds)
    \/ ToggleAutoRefresh(MainBounds)
    \/ TimerRerun(MainBounds)

Spec == Init /\ [][Next]_vars

-----------------------------------------------------------------------------
(* The simulator on its own: direct calls of generate_cell_data and of its    *)
(* status rule, over grids of draws that include both ends of every range.   *)

\* GridStep + 2 evenly spaced points of lo..hi, both ends included, and the
\* two points next to the ends that round() moves
Grid(lo, hi, unit) ==
    {lo + ((hi - lo) * k) \div (GridStep + 1) : k \in 0..(GridStep + 1)}
        \cup {lo + unit \div 2, hi - unit \div 2}

\* uniform(-0.1, 0.1), uniform(-5.0, 5.0), uniform(-2, 8), uniform(2.8, 3.2)
SimDraws ==
    [dv  : Grid(-1000, 1000, 10),
     cur : Grid(-5000, 5000, 10),
     dt  : Grid(-2000, 8000, 100),
     cap : {2800, 3200}]

\* the arguments of one direct call: a chemistry of the selectbox and a draw
GenerateInputs ==
    {<<"draw", CellTypeOptions[k], draw>> : k \in 1..Len(CellTypeOptions), draw \in SimDraws}

\* values around every threshold of the status rule, for a chemistry
ProbeVoltages(config) ==
    {config.min_voltage - 1, config.min_voltage, config.nominal_voltage,
     config.max_voltage, config.max_voltage + 1, config.max_voltage + 50}
ProbeTemperatures ==
    {BASE_TEMP, WARNING_TEMP, WARNING_TEMP + 1, CRITICAL_TEMP, CRITICAL_TEMP + 1}
ProbeHealths == {-50, WARNING_HEALTH - 1, WARNING_HEALTH, WARNING_HEALTH + 1, 1000}

\* the values one evaluation of the status rule starts from
ClassifyInputs ==
    UNION {{<<"values", [cell_type |-> t, voltage |-> v, temperature |-> temp, health |-> h]>> :
                v \in ProbeVoltages(CELL_CONFIGS[t]), temp \in ProbeTemperatures,
                h \in ProbeHealths} : t \in DOMAIN CELL_CONFIGS}

\* generate_cell_data(cell_type, cell_id, current_time), lines 86-133
Generate ==
    /\ probe # <<>> /\ probe[1] = "draw"
    /\ probe' = <<"reading", generate_cell_data(probe[2], CellId(0, probe[2]), clock, probe[3])>>
    /\ UNCHANGED <<num_cells, cell_types, auto_refresh, is_monitoring, cells_data,
                   historical_data, dicts, cells, clock, view, aggregates, error,
                   trigger, appended>>

\* the status rule, lines 113-118, on given voltage, temperature and health
Classify ==
    /\ probe # <<>> /\ probe[1] = "values"
    /\ probe' = <<"status",
                  probe[2] @@
                  [status |-> Status(CELL_CONFIGS[probe[2].cell_type], probe[2].voltage,
                                     probe[2].temperature, probe[2].health)]>>
    /\ UNCHANGED <<num_cells, cell_types, auto_refresh, is_monitoring, cells_data,
                   historical_data, dicts, cells, clock, view, aggregates, error,
                   trigger, appended>>

\* the summary metrics, lines 226-231, of a store holding one generated reading
Summarize ==
    /\ probe # <<>> /\ probe[1] = "reading"
    /\ probe' = <<"metrics", SummaryMetrics(<<probe[2]>>)>>
    /\ UNCHANGED <<num_cells, cell_types, auto_refresh, is_monitoring, cells_data,
                   historical_data, dicts, cells, clock, view, aggregates, error,
                   trigger, appended>>

InitSim == InitSession /\ probe \in GenerateInputs \cup ClassifyInputs

NextSim == Generate \/ Classify \/ Summarize

SpecSim == InitSim /\ [][NextSim]_vars

-----------------------------------------------------------------------------
(* Long monitoring sessions: the cells are initialized once, then monitoring  *)
(* is started, stopped and refreshed until HistAppends snapshots were taken. *)

HistBounds ==
    [cells |-> MaxCells, slot |-> EditSlot, draws |-> {MidDraw},
     maxClock |-> HistAppends + 1]

NextHist ==
    \/ (dicts[cells_data] = EmptyDict /\ ClickInitialize(HistBounds))
    \/ ClickStart(HistBounds)
    \/ ClickStop(HistBounds)
    \/ ToggleAutoRefresh(HistBounds)
    \/ TimerRerun(HistBounds)

SpecHist == Init /\ [][NextHist]_vars

-----------------------------------------------------------------------------
(* Properties *)

\* the current-readings store, before and after a step
StoreKeys == DictKeys(dicts[cells_data])
StoreKeysAfter == DictKeys(dicts'[cells_data'])
StoreEmpty == Len(StoreKeys) = 0
StoreReadings == Values(dicts, cells, cells_data)
StoreReadingsAfter == Values(dicts', cells', cells_data')
StoreTypes == [k \in 1..Len(StoreReadings) |-> StoreReadings[k].cell_type]
StoreTypesAfter == [k \in 1..Len(StoreReadingsAfter) |-> StoreReadingsAfter[k].cell_type]

\* what a snapshot of the history shows: its timestamp and, per key, the reading
SnapshotContent(ds, cs, snap) ==
    [timestamp |-> snap.timestamp,
     keys      |-> DictKeys(ds[snap.data]),
     readings  |-> Values(ds, cs, snap.data)]

\* a step in which the monitoring update block ran to its end
Ticked == Len(appended') = Len(appended) + 1

\* the store holds one reading per slot of the configuration types, in slot order
StoreMatches(keys, readings, types) ==
    /\ Len(keys) = Len(types)
    /\ \A i \in 1..Len(types) :
          /\ keys[i] = CellId(i - 1, types[i])
          /\ readings[i].cell_id = keys[i]
          /\ readings[i].cell_type = types[i]

(* C1: while monitoring is on, the store is non-empty and Auto-Refresh is    *)
(* enabled, every timer-driven run regenerates the reading of every cell and *)
(* appends exactly one snapshot to the history.                              *)
C1_TimerTickAppendsSnapshot ==
    [][(trigger' = "rerun" /\ is_monitoring /\ auto_refresh /\ ~StoreEmpty)
          => /\ Len(appended') = Len(appended) + 1
             /\ \A k \in 1..Len(StoreReadingsAfter) :
                   StoreReadingsAfter[k].timestamp = appended'[Len(appended')].timestamp]_vars

(* C2: the history holds at most 100 snapshots; after n appends in total it  *)
(* holds exactly the min(n, 100) most recently appended snapshots in append  *)
(* order, so after 150 appends its length is 100.                            *)
C2_HistoryKeepsLast100 ==
    LET n == Len(appended)
        m == Len(historical_data)
    IN  /\ m <= 100
        /\ m = IF n <= 100 THEN n ELSE 100
        /\ historical_data = SubSeq(appended, n - m + 1, n)
        /\ \A i \in 1..(n - 1) : appended[i].timestamp < appended[i + 1].timestamp
        /\ n = 150 => m = 100

C2_Witness ==
    /\ Len(appended) = 150
    /\ Len(historical_data) = 100
    /\ historical_data[1] = appended[51]
    /\ historical_data[100] = appended[150]

(* C3 as claimed: after every tick the store holds exactly one reading for   *)
(* each cell slot of the configuration currently selected in the sidebar     *)
(* (same cell count, same chemistry per slot), also when the configuration   *)
(* was changed after the last Initialize.                                    *)
C3_TickFollowsSidebar ==
    [][Ticked => StoreMatches(StoreKeysAfter, StoreReadingsAfter, cell_types')]_vars

(* C3 as amended: a tick calls the simulator once per cell already in the    *)
(* store.  After every tick the store holds exactly one reading, generated   *)
(* at that tick, for each key it held before, in the same order and with the *)
(* same chemistry: the configuration in effect at the last Initialize (the   *)
(* sidebar's only when Initialize was pressed for this very run), not the    *)
(* one currently selected in the sidebar.                                    *)
C3_TickKeepsStoredConfiguration ==
    [][Ticked =>
          /\ cells_data' = cells_data =>
                (StoreKeysAfter = StoreKeys /\ StoreTypesAfter = StoreTypes)
          /\ cells_data' # cells_data =>
                StoreMatches(StoreKeysAfter, StoreReadingsAfter, cell_types')
          /\ StoreMatches(StoreKeysAfter, StoreReadingsAfter, StoreTypesAfter)
          /\ \A k \in 1..Len(StoreReadingsAfter) :
                StoreReadingsAfter[k].timestamp = appended'[Len(appended')].timestamp]_vars

C3_Witness ==
    /\ Len(historical_data) > 0
    /\ ~StoreEmpty
    /\ StoreReadings[1].timestamp = historical_data[Len(historical_data)].timestamp
    /\ StoreTypes # cell_types
    /\ Len(StoreKeys) # num_cells

(* C4: Initialize discards all previous readings and leaves the store with   *)
(* exactly one reading per configured cell slot: for n cells (1..16) the     *)
(* store has n entries with pairwise distinct cell ids, and the reading of   *)
(* slot i carries the chemistry selected for slot i.                         *)
C4_InitializeOneReadingPerSlot ==
    [][ClickInitialize(MainBounds) =>
          /\ num_cells' \in MIN_CELLS..MAX_CELLS
          /\ Len(StoreKeysAfter) = num_cells'
          /\ \A i, j \in 1..Len(StoreKeysAfter) : i # j => StoreKeysAfter[i] # StoreKeysAfter[j]
          /\ StoreMatches(StoreKeysAfter, StoreReadingsAfter, cell_types')
          /\ \A k \in 1..Len(StoreReadingsAfter) : StoreReadingsAfter[k].timestamp >= clock
          /\ cells_data' \notin DOMAIN dicts]_vars

C4_Witness ==
    /\ ~StoreEmpty
    /\ Len(historical_data) = 0
    /\ Len(StoreKeys) = num_cells
    /\ num_cells = 2
    /\ StoreMatches(StoreKeys, StoreReadings, cell_types)
    /\ StoreKeys = <<"Cell_1_NMC", "Cell_2_LFP">>
    /\ StoreTypes = <<"NMC", "LFP">>
    /\ cells_data[1] > 1

(* C5: Stop Monitoring clears the monitoring flag; a run that finds the flag *)
(* false appends nothing to the history and regenerates no reading: the      *)
(* history and its snapshots are unchanged and the store changes only        *)
(* through Initialize, and only Start Monitoring sets the flag again.        *)
C5_StoppedMeansFrozen ==
    [][/\ is_monitoring' => ~ClickStop(MainBounds)
       /\ (~is_monitoring /\ is_monitoring') => ClickStart(MainBounds)
       /\ ~is_monitoring' =>
             /\ historical_data' = historical_data
             /\ appended' = appended
             /\ \A i \in 1..Len(historical_data) :
                   SnapshotContent(dicts', cells', historical_data'[i])
                       = SnapshotContent(dicts, cells, historical_data[i])
             /\ (StoreReadingsAfter # StoreReadings \/ cells_data' # cells_data)
                   => ClickInitialize(MainBounds)]_vars

C5_Witness ==
    /\ ~is_monitoring
    /\ ~auto_refresh
    /\ Len(historical_data) > 0
    /\ ~StoreEmpty
    /\ StoreReadings[1].timestamp > historical_data[Len(historical_data)].timestamp

(* C6: the status is decided in strict precedence: Critical whenever voltage *)
(* < min or voltage > max of the chemistry or temperature > 45, whatever the *)
(* health; otherwise Warning exactly when temperature > 40 or health < 80;   *)
(* otherwise Good.  3.65 V on LFP is Critical; values exactly at min, max,   *)
(* 45 or 40 do not trigger the respective condition.                         *)
C6_StatusPrecedence ==
    (probe # <<>> /\ probe[1] = "status") =>
        LET r        == probe[2]
            config   == CELL_CONFIGS[r.cell_type]
            inside   == config.min_voltage <= r.voltage /\ r.voltage <= config.max_voltage
            critical == ~inside \/ r.temperature > 450
            warning  == r.temperature > 400 \/ r.health < 800
        IN  /\ r.status = "Critical" <=> critical
            /\ r.status = "Warning" <=> (~critical /\ warning)
            /\ r.status = "Good" <=> (~critical /\ ~warning)
            /\ (r.cell_type = "LFP" /\ r.voltage = 3650) => r.status = "Critical"
            /\ (r.voltage \in {config.min_voltage, config.max_voltage}
                   /\ r.temperature <= 450) => r.status # "Critical"
            /\ (inside /\ r.temperature = 450) => r.status # "Critical"
            /\ (inside /\ r.temperature = 400 /\ r.health >= 800) => r.status = "Good"

C6_Witness ==
    probe = <<"status", [cell_type |-> "LFP", voltage |-> 3650, temperature |-> 401,
                         health |-> 799, status |-> "Critical"]>>

(* C7: the aggregates (status counts, mean health, total power) are never     *)
(* computed over an empty reading set: whenever the store is empty the main  *)
(* area shows the placeholder, and whenever the aggregates were computed the *)
(* store held at least one reading.                                          *)
C7_NoAggregatesOverEmptyStore ==
    /\ StoreEmpty => (view = "placeholder" /\ aggregates = <<>>)
    /\ aggregates # <<>> =>
          /\ aggregates[1].total_cells >= 1
          /\ aggregates[1].avg_health # "nan"
          /\ aggregates[1].good_cells + aggregates[1].warning_cells
                + aggregates[1].critical_cells = aggregates[1].total_cells
    /\ view = "dashboard" => (~StoreEmpty /\ aggregates # <<>>)

C7_Witness ==
    /\ StoreEmpty
    /\ is_monitoring
    /\ ~auto_refresh
    /\ view = "placeholder"
    /\ aggregates = <<>>
    /\ historical_data = <<>>

(* C8: a history snapshot is an immutable copy of the readings at its tick:  *)
(* once appended, its timestamp and every cell reading in it are never       *)
(* changed by a later tick or a later Initialize, although the snapshot is a *)
(* shallow copy of the store.                                                *)
C8_SnapshotsImmutable ==
    [][/\ \A i \in 1..Len(historical_data) : \A j \in 1..Len(historical_data') :
             historical_data[i].timestamp = historical_data'[j].timestamp =>
                SnapshotContent(dicts', cells', historical_data'[j])
                    = SnapshotContent(dicts, cells, historical_data[i])
       /\ Len(historical_data) < HISTORY_CAP =>
             \A i \in 1..Len(historical_data) :
                /\ i <= Len(historical_data')
                /\ historical_data'[i].timestamp = historical_data[i].timestamp
       /\ \A j \in 1..Len(historical_data') :
             \A k \in 1..Len(dicts'[historical_data'[j].data]) :
                /\ cells'[dicts'[historical_data'[j].data][k].ref].timestamp
                      = historical_data'[j].timestamp
                /\ cells'[dicts'[historical_data'[j].data][k].ref].cell_id
                      = dicts'[historical_data'[j].data][k].key]_vars

C8_Witness ==
    /\ Len(historical_data) = 2
    /\ ~StoreEmpty
    /\ LET c == SnapshotContent(dicts, cells, historical_data[1])
       IN  /\ Len(c.readings) = Len(StoreReadings)
           /\ c.readings[1].timestamp = historical_data[1].timestamp
           /\ c.readings[1].timestamp < StoreReadings[1].timestamp
           /\ c.keys = StoreKeys

(* C9: the unrecognized-chemistry error is unreachable: through Initialize,  *)
(* Start/Stop, configuration changes and ticks the simulator is only invoked *)
(* with one of the four known chemistries, also on ticks, where the          *)
(* chemistry is read back from the stored reading.                           *)
C9_OnlyKnownChemistries ==
    /\ error = "none"
    /\ view # "exception"
    /\ \A i \in 1..Len(cell_types) : cell_types[i] \in {"LFP", "NMC", "LTO", "LiCoO2"}
    /\ \A k \in 1..Len(StoreTypes) : StoreTypes[k] \in {"LFP", "NMC", "LTO", "LiCoO2"}

C9_Witness ==
    /\ error = "none"
    /\ Len(historical_data) > 0
    /\ ~StoreEmpty
    /\ StoreTypes[1] = "LiCoO2"
    /\ StoreReadings[1].timestamp = historical_data[Len(historical_data)].timestamp
    /\ cell_types[1] # "LiCoO2"

(* C10: every reading the simulator can generate has status Good: for all    *)
(* four chemistries and all draws the voltage stays inside [min, max], the   *)
(* temperature never exceeds 35.5 and the health stays within [80, 100], so  *)
(* the Good count of the summary equals the total cell count.                *)
C10_GeneratedReadingsAreGood ==
    /\ (probe # <<>> /\ probe[1] = "reading") =>
          LET r == probe[2]
          IN  /\ r.status = "Good"
              /\ r.min_voltage <= r.voltage /\ r.voltage <= r.max_voltage
              /\ r.temperature <= 355
              /\ 800 <= r.health /\ r.health <= 1000
    /\ (probe # <<>> /\ probe[1] = "metrics") =>
          /\ probe[2].total_cells = 1
          /\ probe[2].good_cells = probe[2].total_cells
          /\ probe[2].warning_cells = 0
          /\ probe[2].critical_cells = 0

C10_Witness ==
    /\ probe # <<>>
    /\ probe[1] = "reading"
    /\ probe[2].cell_type = "LTO"
    /\ probe[2].voltage = 2500
    /\ probe[2].temperature = 355
    /\ probe[2].status = "Good"

====
